---- MODULE Spec2Model ----
(***************************************************************************)
(* Workflow engine of backend/app/workflows/base.py: WorkflowState,        *)
(* WorkflowStep, BaseWorkflow (context codec, graph construction, node     *)
(* function, execute, get_status).  The LangGraph chain is modelled as the *)
(* linear node/edge graph build_graph constructs, run one node at a time,  *)
(* with a checkpoint appended to the run's thread after every node.        *)
(***************************************************************************)
EXTENDS Integers, Sequences, FiniteSets, TLC

\* ------------------------------------------------------------------ bounds
MaxSteps == 2      \* longest step list add_step may build
MaxCalls == 1      \* number of execute() invocations, possibly interleaved
MaxClock == 1      \* ticks of the wall clock (datetime.now())

StepNames == {"A", "B"}
Calls     == 1..MaxCalls
Messages  == {"x"}                  \* str(e) of exceptions raised by steps

\* ------------------------------------------------------------- constants
None      == "None"                 \* Optional[str] = None
NoTime    == -1                     \* Optional[datetime] = None
END       == "__end__"
NoEntry   == "__no_entry__"
CompileError  == "Graph must have an entrypoint"
KeyErrorMsg   == "'values'"
ValidationErrorMsg == "validation error"

CallerIds == {<<"caller", 1>>}      \* workflow ids chosen by the caller
UuidIds   == {<<"uuid", i>> : i \in 1..MaxCalls}
ThreadIds == CallerIds \cup UuidIds

\* ------------------------------------------------------------ context values
\* A context value is a tagged tuple:
\*   <<"int", n>>  <<"str", s>>                      primitives
\*   <<"model", cls, module, fields>>                pydantic BaseModel instance
\*   <<"series", values, index, name>>               pandas.Series
\*   <<"frame", values, columns, index>>             pandas.DataFrame
\*   <<"dict", f>>  <<"list", s>>                    dict / list
\*   <<"raise", msg>>                                an exception in flight
Str(s)  == <<"str", s>>
Num(n)  == <<"int", n>>
Dict(f) == <<"dict", f>>
List(s) == <<"list", s>>
Raise(m) == <<"raise", m>>
IsRaise(v) == v[1] = "raise"

EmptyContext == [k \in {} |-> Num(0)]

\* Importable modules and the BaseModel subclasses they define, with the
\* fields each class requires (app/schemas/fund_analysis.py).
SchemaModule == "app.schemas.fund_analysis"
ModelClasses == {"PortfolioSummary"}
ClassFields(cls) == {"total_value"}

PortfolioSummary(v) == <<"model", "PortfolioSummary", SchemaModule, ("total_value" :> Num(v))>>

\* value.dict(): nested models become plain dicts
RECURSIVE dict(_)
dict(v) ==
    CASE v[1] = "model" -> Dict([k \in DOMAIN v[4] |-> dict(v[4][k])])
      [] v[1] = "dict"  -> Dict([k \in DOMAIN v[2] |-> dict(v[2][k])])
      [] v[1] = "list"  -> List([i \in DOMAIN v[2] |-> dict(v[2][i])])
      [] OTHER          -> v

RECURSIVE serialize_value(_)
serialize_value(value) ==
    CASE value[1] = "model" ->
            Dict(("_type" :> Str(value[2])) @@ ("_module" :> Str(value[3]))
                 @@ ("_data" :> dict(value)))
      [] value[1] = "series" ->
            Dict(("_type" :> Str("pandas.Series"))
                 @@ ("_data" :> Dict(("values" :> List(value[2]))
                                     @@ ("index" :> List(value[3]))
                                     @@ ("name" :> value[4]))))
      [] value[1] = "frame" ->
            Dict(("_type" :> Str("pandas.DataFrame"))
                 @@ ("_data" :> Dict(("values" :> List(value[2]))
                                     @@ ("columns" :> List(value[3]))
                                     @@ ("index" :> List(value[4])))))
      [] value[1] = "dict" ->
            Dict([k \in DOMAIN value[2] |-> serialize_value(value[2][k])])
      [] value[1] = "list" ->
            List([i \in DOMAIN value[2] |-> serialize_value(value[2][i])])
      [] OTHER -> value

_serialize_context(context) ==
    [key \in DOMAIN context |-> serialize_value(context[key])]

\* obj_data[key] for the pandas envelopes: KeyError / TypeError when absent
HasKeys(obj_data, keys) ==
    /\ obj_data[1] = "dict"
    /\ keys \subseteq DOMAIN obj_data[2]

\* the reconstruction leaves a tagged mapping in place of the object
Construct_keeps_envelope(cls, module, obj_data) ==
    Dict(("_type" :> Str(cls)) @@ ("_data" :> Dict("total_value" :> obj_data)))

\* model_class(**obj_data): pydantic validates the keyword arguments
Construct(cls, module, obj_data) ==
    IF obj_data[1] = "dict" /\ ClassFields(cls) \subseteq DOMAIN obj_data[2]
    THEN <<"model", cls, module, obj_data[2]>>
    ELSE Raise(ValidationErrorMsg)

\* the class looked up by its name alone, whatever module the envelope names
Resolves_any_module(module, cls) ==
    /\ cls[1] = "str"
    /\ cls[2] \in ModelClasses

\* importlib.import_module + getattr succeed and give a BaseModel subclass
Resolves(module, cls) ==
    /\ module = Str(SchemaModule)
    /\ cls[1] = "str"
    /\ cls[2] \in ModelClasses

RECURSIVE deserialize_value(_)
deserialize_value(value) ==
    CASE value[1] = "dict" ->
            LET f == value[2] IN
            IF "_type" \in DOMAIN f /\ "_data" \in DOMAIN f
            THEN LET obj_type == f["_type"]
                     obj_data == f["_data"]
                 IN  IF obj_type = Str("pandas.Series")
                     THEN IF HasKeys(obj_data, {"values", "index", "name"})
                          THEN <<"series", obj_data[2]["values"][2],
                                 obj_data[2]["index"][2], obj_data[2]["name"]>>
                          ELSE Raise(KeyErrorMsg)
                     ELSE IF obj_type = Str("pandas.DataFrame")
                     THEN IF HasKeys(obj_data, {"values", "columns", "index"})
                          THEN <<"frame", obj_data[2]["values"][2],
                                 obj_data[2]["columns"][2], obj_data[2]["index"][2]>>
                          ELSE Raise(KeyErrorMsg)
                     ELSE IF "_module" \in DOMAIN f /\ Resolves(f["_module"], obj_type)
                     THEN Construct(obj_type[2], f["_module"][2], obj_data)
                     ELSE deserialize_value(obj_data)
            ELSE LET r == [k \in DOMAIN f |-> deserialize_value(f[k])]
                 IN  IF \E k \in DOMAIN r : IsRaise(r[k])
                     THEN r[CHOOSE k \in DOMAIN r : IsRaise(r[k])]
                     ELSE Dict(r)
      [] value[1] = "list" ->
            LET r == [i \in DOMAIN value[2] |-> deserialize_value(value[2][i])]
            IN  IF \E i \in DOMAIN r : IsRaise(r[i])
                THEN r[CHOOSE i \in DOMAIN r : IsRaise(r[i])]
                ELSE List(r)
      [] OTHER -> value

\* The context as a whole; Raise(m) when some value raises.
_deserialize_context(context) ==
    LET r == [key \in DOMAIN context |-> deserialize_value(context[key])]
    IN  IF \E k \in DOMAIN r : IsRaise(r[k])
        THEN r[CHOOSE k \in DOMAIN r : IsRaise(r[k])]
        ELSE Dict(r)

\* ------------------------------------------------------------ WorkflowState
\* progress is the float (num/den)*100 kept as the exact fraction num/den.
Progress(num, den) == [num |-> num, den |-> den]
ProgressEq(p, q) == p.num * q.den = q.num * p.den
ProgressLe(p, q) == p.num * q.den <= q.num * p.den

WorkflowState(workflow_id, started_at, context) ==
    [workflow_id   |-> workflow_id,
     status        |-> "pending",
     progress      |-> Progress(0, 1),
     current_step  |-> "initialization",
     started_at    |-> started_at,
     completed_at  |-> NoTime,
     error_message |-> None,
     context       |-> context]

\* "no state": the None of Optional[WorkflowState]
NoState == WorkflowState(<<"none", 0>>, NoTime, EmptyContext)

\* WorkflowStep.on_error
on_error(state, error) ==
    [state EXCEPT !.status = "error", !.error_message = error]

\* ------------------------------------------------------------------ graph
NoGraph == [built |-> FALSE, nodes |-> <<>>, entry |-> NoEntry,
            edges |-> [n \in {} |-> END]]

HasDuplicates(s) == \E i, j \in DOMAIN s : i # j /\ s[i] = s[j]

\* list.index: position of the first occurrence
Index(s, x) == CHOOSE i \in DOMAIN s : s[i] = x /\ \A j \in 1..(i-1) : s[j] # x

\* build_graph with the chain wired backwards
build_graph_reversed(steplist) ==
    [built |-> TRUE,
     nodes |-> steplist,
     entry |-> IF Len(steplist) > 0 THEN steplist[Len(steplist)] ELSE NoEntry,
     edges |-> [n \in {steplist[i] : i \in DOMAIN steplist} |->
                  IF Index(steplist, n) > 1
                  THEN steplist[Index(steplist, n) - 1]
                  ELSE END]]

\* BaseWorkflow.build_graph: one node per step, an edge from each step to
\* the next, the first step as entry point, the last step's edge to END.
build_graph(steplist) ==
    [built |-> TRUE,
     nodes |-> steplist,
     entry |-> IF Len(steplist) > 0 THEN steplist[1] ELSE NoEntry,
     edges |-> [n \in {steplist[i] : i \in DOMAIN steplist} |->
                  IF Index(steplist, n) < Len(steplist)
                  THEN steplist[Index(steplist, n) + 1]
                  ELSE END]]

\* progress computed from the 0-based index
StepProgress_zero_based(steplist, step) ==
    Progress(Index(steplist, step) - 1, Len(steplist))

\* progress written by the node function after a step returned
StepProgress(steplist, step) ==
    Progress(Index(steplist, step), Len(steplist))

\* normal completion that leaves the status as the chain returned it
CompletedState_keeps_status(result, context, now) ==
    [result EXCEPT !.context = context,
                   !.completed_at = now]

\* execute(): the state built on normal completion of the chain
CompletedState(result, context, now) ==
    [result EXCEPT !.context = context,
                   !.status = "completed",
                   !.completed_at = now]

\* error state stamped with the time of the failure as started_at
ErrorState_restamped(initial, error, now) ==
    [WorkflowState(initial.workflow_id, now, EmptyContext)
        EXCEPT !.status = "error",
               !.error_message = error,
               !.completed_at = now]

\* execute(): the state built when an exception surfaces inside the try
ErrorState(initial, error, now) ==
    [WorkflowState(initial.workflow_id, initial.started_at, EmptyContext)
        EXCEPT !.status = "error",
               !.error_message = error,
               !.completed_at = now]

\* ------------------------------------------------------------------ inputs
MalformedSeries == Dict(("_type" :> Str("pandas.Series")) @@ ("_data" :> Dict(EmptyContext)))

InitContexts ==
    { ("portfolio_summary" :> PortfolioSummary(1)),
      ("raw" :> MalformedSeries) }

\* what a step's execute may put into the context before returning
StepOutputs == { ("result" :> PortfolioSummary(2)) }

Update(context, out) ==
    [k \in DOMAIN context \cup DOMAIN out |->
        IF k \in DOMAIN out THEN out[k] ELSE context[k]]

\* ------------------------------------------------------------------- state
VARIABLES
    steps,          \* BaseWorkflow.steps (steps identified by their name)
    graph,          \* BaseWorkflow.graph
    checkpoints,    \* MemorySaver: thread id -> sequence of checkpointed states
    clock,          \* datetime.now()
    uuids,          \* number of uuid4() values drawn so far
    pc,             \* per execute() call: idle, node, step, returned, raised
    initial_state,  \* per call: the initial state of the run
    state,          \* per call: the state flowing through the chain
    node,           \* per call: the graph node about to run / running
    result,         \* per call: the state execute() returned
    surfaced,       \* per call: message of the exception caught by execute()
    log,            \* per call: events of the run, in order
    run_tree,       \* self.run_tree: the call whose run tree it is, 0 for None
    trees,          \* per run tree (by creating call): the outputs written to it
    codec,          \* one application of the context codec to a value
    wrap,           \* one execution of a wrapper step (timed, retry)
    mgr             \* WorkflowManager and the workflows registered in it

vars == <<steps, graph, checkpoints, clock, uuids, pc, initial_state, state,
          node, result, surfaced, log, run_tree, trees, codec, wrap, mgr>>

\* the variables the engine's actions leave alone
aux == <<codec, wrap, mgr>>

CodecIdle == [op |-> "idle"]
WrapIdle  == [op |-> "idle"]
\* WorkflowManager(): no workflow registered, no execution logged.  workflows
\* holds the registered names in registration order, q the answers of the
\* get_status of the second pipeline, recorded the calls logged, in order.
MgrIdle ==
    [op |-> "idle", tick |-> 0, workflows |-> <<>>,
     q |-> [t \in ThreadIds |-> NoState],
     executions |-> [t \in {} |-> NoState],
     recorded |-> <<>>, name |-> None, id |-> <<"none", 0>>,
     answer |-> NoState, error |-> None]

Init ==
    /\ steps = <<>>
    /\ graph = NoGraph
    /\ checkpoints = [t \in ThreadIds |-> <<>>]
    /\ clock = 0
    /\ uuids = 0
    /\ pc = [c \in Calls |-> "idle"]
    /\ initial_state = [c \in Calls |-> NoState]
    /\ state = [c \in Calls |-> NoState]
    /\ node = [c \in Calls |-> NoEntry]
    /\ result = [c \in Calls |-> NoState]
    /\ surfaced = [c \in Calls |-> None]
    /\ log = [c \in Calls |-> <<>>]
    /\ run_tree = 0
    /\ trees = [c \in Calls |-> {}]
    /\ codec = CodecIdle
    /\ wrap = WrapIdle
    /\ mgr = MgrIdle

Event(kind, step) == <<kind, step>>

\* self.run_tree.outputs = {..., "status": status}; self.run_tree.end(),
\* done by call c
TreeOutputs(c, status) == <<c, status>>

\* the graph is rebuilt by every execute
ensure_graph_rebuilds(g, steplist) == build_graph(steplist)

\* if not self.graph: self.graph = self.build_graph()
ensure_graph(g, steplist) == IF g.built THEN g ELSE build_graph(steplist)

\* the checkpoint LangGraph saves for a thread after a superstep
PutCheckpoint(cps, st) ==
    [cps EXCEPT ![st.workflow_id] = Append(@, st)]

\* ----------------------------------------------------------------- actions
\* time passes
Tick ==
    /\ UNCHANGED aux
    /\ clock < MaxClock
    /\ clock' = clock + 1
    /\ UNCHANGED <<steps, graph, checkpoints, uuids, pc, initial_state, state,
                   node, result, surfaced, log, run_tree, trees>>

\* BaseWorkflow.add_step
add_step(step) ==
    /\ UNCHANGED aux
    /\ Len(steps) < MaxSteps
    /\ steps' = Append(steps, step)
    /\ UNCHANGED <<graph, checkpoints, clock, uuids, pc, initial_state, state,
                   node, result, surfaced, log, run_tree, trees>>

\* BaseWorkflow.execute, from the call up to the first node of the chain.
\* arg = NoState stands for initial_state=None.
execute(c, arg) ==
    /\ UNCHANGED aux
    /\ pc[c] = "idle"
    /\ \A d \in 1..(c - 1) : pc[d] # "idle"
    /\ IF ~graph.built /\ HasDuplicates(steps)
       THEN \* graph.add_node raises ValueError outside the try block
            /\ pc' = [pc EXCEPT ![c] = "raised"]
            /\ UNCHANGED <<steps, graph, checkpoints, clock, uuids,
                           initial_state, state, node, result, surfaced, log,
                           run_tree, trees>>
       ELSE LET g    == ensure_graph(graph, steps)
                made == IF arg = NoState
                        THEN WorkflowState(<<"uuid", uuids + 1>>, clock, EmptyContext)
                        ELSE arg
                init == [made EXCEPT !.status = "running"]
                serialized_state ==
                        [init EXCEPT !.context = _serialize_context(init.context)]
            IN  /\ graph' = g
                /\ uuids' = IF arg = NoState THEN uuids + 1 ELSE uuids
                /\ initial_state' = [initial_state EXCEPT ![c] = init]
                /\ run_tree' = c
                /\ IF g.entry = NoEntry
                   THEN \* compile() raises inside the try block
                        /\ result' = [result EXCEPT ![c] = ErrorState(init, CompileError, clock)]
                        /\ surfaced' = [surfaced EXCEPT ![c] = CompileError]
                        /\ pc' = [pc EXCEPT ![c] = "returned"]
                        /\ trees' = [trees EXCEPT ![c] = @ \cup {TreeOutputs(c, "error")}]
                        /\ UNCHANGED <<checkpoints, state, node, log>>
                   ELSE /\ checkpoints' = PutCheckpoint(checkpoints, serialized_state)
                        /\ state' = [state EXCEPT ![c] = serialized_state]
                        /\ node' = [node EXCEPT ![c] = g.entry]
                        /\ log' = [log EXCEPT ![c] = Append(@, Event("checkpoint", "__input__"))]
                        /\ pc' = [pc EXCEPT ![c] = "node"]
                        /\ UNCHANGED <<result, surfaced, trees>>
                /\ UNCHANGED <<steps, clock>>

\* node_function up to "await step.execute(state)".  When decoding the
\* context raises, the except branch runs on_error and the node is over.
node_begin(c) ==
    /\ UNCHANGED aux
    /\ pc[c] = "node"
    /\ node[c] # END
    /\ LET step    == node[c]
           st1     == [state[c] EXCEPT !.current_step = step]
           decoded == _deserialize_context(st1.context)
       IN  IF IsRaise(decoded)
           THEN LET st2 == on_error(st1, decoded[2])
                IN  /\ state' = [state EXCEPT ![c] = st2]
                    /\ checkpoints' = PutCheckpoint(checkpoints, st2)
                    /\ node' = [node EXCEPT ![c] = graph.edges[step]]
                    /\ log' = [log EXCEPT ![c] = @ \o <<Event("codec_raise", step),
                                                       Event("checkpoint", step)>>]
                    /\ UNCHANGED pc
           ELSE /\ state' = [state EXCEPT ![c] = [st1 EXCEPT !.context = decoded[2]]]
                /\ log' = [log EXCEPT ![c] = Append(@, Event("begin", step))]
                /\ pc' = [pc EXCEPT ![c] = "step"]
                /\ UNCHANGED <<checkpoints, node>>
    /\ UNCHANGED <<steps, graph, clock, uuids, initial_state, result, surfaced,
                   run_tree, trees>>

\* step.execute returned: progress, encode, checkpoint, follow the edge
node_return(c, out) ==
    /\ UNCHANGED aux
    /\ pc[c] = "step"
    /\ LET step == node[c]
           result_state ==
               [state[c] EXCEPT
                   !.progress = StepProgress(steps, step),
                   !.context  = _serialize_context(Update(state[c].context, out))]
       IN  /\ state' = [state EXCEPT ![c] = result_state]
           /\ checkpoints' = PutCheckpoint(checkpoints, result_state)
           /\ node' = [node EXCEPT ![c] = graph.edges[step]]
           /\ log' = [log EXCEPT ![c] = @ \o <<Event("return", step),
                                              Event("checkpoint", step)>>]
    /\ pc' = [pc EXCEPT ![c] = "node"]
    /\ UNCHANGED <<steps, graph, clock, uuids, initial_state, result, surfaced,
                   run_tree, trees>>

\* step.execute raised: the except branch returns on_error(state, e)
node_raise(c, error) ==
    /\ UNCHANGED aux
    /\ pc[c] = "step"
    /\ LET step == node[c]
           st2  == on_error(state[c], error)
       IN  /\ state' = [state EXCEPT ![c] = st2]
           /\ checkpoints' = PutCheckpoint(checkpoints, st2)
           /\ node' = [node EXCEPT ![c] = graph.edges[step]]
           /\ log' = [log EXCEPT ![c] = @ \o <<Event("raise", step),
                                              Event("checkpoint", step)>>]
    /\ pc' = [pc EXCEPT ![c] = "node"]
    /\ UNCHANGED <<steps, graph, clock, uuids, initial_state, result, surfaced,
                   run_tree, trees>>

\* BaseWorkflow.execute after ainvoke returned
execute_finish(c) ==
    /\ UNCHANGED aux
    /\ pc[c] = "node"
    /\ node[c] = END
    /\ LET decoded == _deserialize_context(state[c].context)
       IN  IF IsRaise(decoded)
           THEN /\ result' = [result EXCEPT ![c] =
                                 ErrorState(initial_state[c], decoded[2], clock)]
                /\ surfaced' = [surfaced EXCEPT ![c] = decoded[2]]
                /\ trees' = [trees EXCEPT ![run_tree] = @ \cup {TreeOutputs(c, "error")}]
           ELSE /\ result' = [result EXCEPT ![c] =
                                 CompletedState(state[c], decoded[2], clock)]
                /\ trees' = [trees EXCEPT ![run_tree] = @ \cup {TreeOutputs(c, "completed")}]
                /\ UNCHANGED surfaced
    /\ pc' = [pc EXCEPT ![c] = "returned"]
    /\ state' = [state EXCEPT ![c] = NoState]    \* the locals are gone
    /\ node' = [node EXCEPT ![c] = NoEntry]
    /\ UNCHANGED <<steps, graph, checkpoints, clock, uuids, initial_state, log,
                   run_tree>>

\* the states a caller may pass to execute
CallerStates ==
    {WorkflowState(id, clock, ctx) : id \in CallerIds, ctx \in InitContexts}

Next ==
    \/ Tick
    \/ \E s \in StepNames : add_step(s)
    \/ \E c \in Calls : \E arg \in CallerStates \cup {NoState} : execute(c, arg)
    \/ \E c \in Calls : node_begin(c)
    \/ \E c \in Calls : \E out \in StepOutputs : node_return(c, out)
    \/ \E c \in Calls : \E m \in Messages : node_raise(c, m)
    \/ \E c \in Calls : execute_finish(c)

Spec == Init /\ [][Next]_vars

\* BaseWorkflow.get_status
get_status(workflow_id) ==
    IF ~graph.built THEN NoState
    ELSE IF checkpoints[workflow_id] = <<>> THEN NoState
    ELSE checkpoints[workflow_id][Len(checkpoints[workflow_id])]

TypeOK ==
    /\ pc \in [Calls -> {"idle", "node", "step", "returned", "raised"}]
    /\ clock \in 0..MaxClock
    /\ Len(steps) <= MaxSteps

\* ---------------------------------------------------------------- helpers
Kinds(c, kinds) == {i \in DOMAIN log[c] : log[c][i][1] \in kinds}

\* names of the steps whose execute was invoked by call c, in order
Invoked(c) ==
    LET begins == SelectSeq(log[c], LAMBDA e : e[1] = "begin")
    IN  [i \in DOMAIN begins |-> begins[i][2]]

IsPrefix(s, t) ==
    /\ Len(s) <= Len(t)
    /\ \A i \in DOMAIN s : s[i] = t[i]

\* some step's execute raised in call c
StepRaised(c) == Kinds(c, {"raise"}) # {}

\* the step whose execute raised first in call c
FirstRaised(c) ==
    log[c][CHOOSE i \in Kinds(c, {"raise"}) : \A j \in Kinds(c, {"raise"}) : i <= j][2]

\* call c ran its whole chain without any node failing
CleanRun(c) ==
    /\ pc[c] = "returned"
    /\ surfaced[c] = None
    /\ Kinds(c, {"raise", "codec_raise"}) = {}

\* no other call uses the thread of call c
OwnThread(c) ==
    \A d \in Calls \ {c} :
        initial_state[d].workflow_id # initial_state[c].workflow_id

CheckpointedStates ==
    UNION {{checkpoints[t][i] : i \in DOMAIN checkpoints[t]} : t \in ThreadIds}

\* ------------------------------------------------------------------ claims

\* C1: once a step's execute has raised in a run, no later step's execute is
\* invoked in that run (fail-fast).
C1_FailFast ==
    \A c \in Calls : \A i, j \in DOMAIN log[c] :
        (i < j /\ log[c][i][1] = "raise") => log[c][j][1] # "begin"

\* C2: when step k raises, the state execute returns has status "error", a
\* non-null error_message and current_step equal to step k's name.
C2_StepFailureReturnsError ==
    \A c \in Calls :
        (pc[c] = "returned" /\ StepRaised(c)) =>
            /\ result[c].status = "error"
            /\ result[c].error_message # None
            /\ result[c].current_step = FirstRaised(c)

\* C3: every state returned by execute has status "completed" or "error",
\* never "pending" or "running".
C3_ReturnedStatusTerminal ==
    \A c \in Calls :
        pc[c] = "returned" => result[c].status \in {"completed", "error"}

C3_Witness ==
    \E c \in Calls : pc[c] = "returned" /\ Len(Invoked(c)) >= 1 /\ StepRaised(c)

\* C4: after execute has returned, the latest checkpoint of the run, as read
\* by get_status, does not report status "running".
C4_NoRunningCheckpointAfterReturn ==
    \A c \in Calls :
        (pc[c] = "returned" /\ OwnThread(c)) =>
            get_status(result[c].workflow_id).status # "running"

\* C5: execute never lets an exception of a step or of the codec reach its
\* caller; an exception surfacing from the chain gives a returned state with
\* status "error", the run's workflow id and started_at, and the message.
C5_ExecuteNeverPropagates ==
    \A c \in Calls :
        /\ pc[c] = "raised" => (log[c] = <<>> /\ initial_state[c] = NoState)
        /\ (pc[c] = "returned" /\ surfaced[c] # None) =>
              /\ result[c].status = "error"
              /\ result[c].workflow_id = initial_state[c].workflow_id
              /\ result[c].started_at = initial_state[c].started_at
              /\ result[c].error_message = surfaced[c]

C5_Witness ==
    \E c \in Calls :
        /\ pc[c] = "returned"
        /\ surfaced[c] = KeyErrorMsg
        /\ Kinds(c, {"codec_raise"}) # {}
        /\ result[c].started_at < clock

\* C6: a run of a pipeline of N >= 1 steps in which no step raises returns
\* status "completed" and progress 100, on the first run and on later ones.
C6_CleanRunCompletes100 ==
    \A c \in Calls :
        (CleanRun(c) /\ Len(steps) >= 1) =>
            /\ result[c].status = "completed"
            /\ ProgressEq(result[c].progress, Progress(1, 1))

\* C7: within a run the steps' execute calls follow the order in which the
\* steps were added, each step at most once, none skipped or reordered, and
\* one at a time.
C7_StepsInDeclaredOrder ==
    \A c \in Calls :
        /\ IsPrefix(Invoked(c), steps)
        /\ ~HasDuplicates(Invoked(c))
        /\ \A i \in Kinds(c, {"begin"}) :
              IF i = Len(log[c])
              THEN pc[c] = "step"
              ELSE /\ log[c][i + 1][1] \in {"return", "raise"}
                   /\ log[c][i + 1][2] = log[c][i][2]
        /\ pc[c] = "step" => log[c][Len(log[c])] = Event("begin", node[c])

C7_Witness ==
    \E c \in Calls :
        /\ pc[c] = "returned"
        /\ Len(steps) >= 2
        /\ Invoked(c) = steps

\* C8: when step k of N raises after steps 1..k-1 succeeded, the returned
\* state has progress ((k-1)/N)*100.
C8_FailedRunKeepsProgress ==
    \A c \in Calls :
        (/\ pc[c] = "returned"
         /\ surfaced[c] = None
         /\ Kinds(c, {"codec_raise"}) = {}
         /\ StepRaised(c)
         /\ steps = graph.nodes) =>
            ProgressEq(result[c].progress,
                       Progress(Index(steps, FirstRaised(c)) - 1, Len(steps)))

C10_ErrorMessageIffError ==
    /\ \A c \in Calls :
          pc[c] = "returned" =>
             (result[c].error_message # None <=> result[c].status = "error")
    /\ \A st \in CheckpointedStates :
          st.error_message # None <=> st.status = "error"

\* ------------------------------------------- steps added while a run is on
MaxLateSteps == 5  \* longest step list when steps keep being added

\* a workflow whose constructor adds two steps, as FundAdvisoryWorkflow and
\* ImageAnalysisWorkflow do in __init__
ConstructedSteps == <<"A", "B">>

InitLate ==
    /\ steps = ConstructedSteps
    /\ graph = NoGraph
    /\ checkpoints = [t \in ThreadIds |-> <<>>]
    /\ clock = 0
    /\ uuids = 0
    /\ pc = [c \in Calls |-> "idle"]
    /\ initial_state = [c \in Calls |-> NoState]
    /\ state = [c \in Calls |-> NoState]
    /\ node = [c \in Calls |-> NoEntry]
    /\ result = [c \in Calls |-> NoState]
    /\ surfaced = [c \in Calls |-> None]
    /\ log = [c \in Calls |-> <<>>]
    /\ run_tree = 0
    /\ trees = [c \in Calls |-> {}]
    /\ codec = CodecIdle
    /\ wrap = WrapIdle
    /\ mgr = MgrIdle

\* BaseWorkflow.add_step, with the longer list
add_step_late(step) ==
    /\ Len(steps) < MaxLateSteps
    /\ steps' = Append(steps, step)
    /\ UNCHANGED <<graph, checkpoints, clock, uuids, pc, initial_state, state,
                   node, result, surfaced, log, run_tree, trees>>
    /\ UNCHANGED aux

NextLate ==
    \/ \E s \in StepNames : add_step_late(s)
    \/ \E c \in Calls : \E arg \in CallerStates \cup {NoState} : execute(c, arg)
    \/ \E c \in Calls : node_begin(c)
    \/ \E c \in Calls : \E out \in StepOutputs : node_return(c, out)
    \/ \E c \in Calls : \E m \in Messages : node_raise(c, m)
    \/ \E c \in Calls : execute_finish(c)

SpecLate == InitLate /\ [][NextLate]_vars

\* progress of the successive checkpoints of call c, then of the returned state
RunProgress(c) ==
    LET t   == initial_state[c].workflow_id
        cps == IF t \in ThreadIds THEN checkpoints[t] ELSE <<>>
    IN  [i \in DOMAIN cps |-> cps[i].progress]
        \o (IF pc[c] = "returned" THEN <<result[c].progress>> ELSE <<>>)

\* C11: over the successive checkpoints of a run and the state execute
\* returns, progress never decreases and stays within [0, 100].
C11_ProgressMonotone ==
    \A c \in Calls :
        OwnThread(c) =>
            LET p == RunProgress(c)
            IN  /\ \A i, j \in DOMAIN p : i < j => ProgressLe(p[i], p[j])
                /\ \A i \in DOMAIN p :
                      ProgressLe(Progress(0, 1), p[i]) /\ ProgressLe(p[i], Progress(1, 1))

\* C12: get_status returns null when the run has no checkpoint, and
\* otherwise the latest checkpointed state with its context decoded.
C12_GetStatusDecodes ==
    \A t \in ThreadIds :
        IF ~graph.built \/ checkpoints[t] = <<>>
        THEN get_status(t) = NoState
        ELSE LET cp      == checkpoints[t][Len(checkpoints[t])]
                 decoded == _deserialize_context(cp.context)
             IN  ~IsRaise(decoded) =>
                    get_status(t) = [cp EXCEPT !.context = decoded[2]]

\* ------------------------------------------------------ the codec on its own
MaxDepth == 2      \* nesting depth of the context values encoded

\* the engine's variables, left alone by the codec, wrapper and manager actions
engine == <<steps, graph, checkpoints, clock, uuids, pc, initial_state, state,
            node, result, surfaced, log, run_tree, trees>>

Leaves ==
    {Num(1), Str("a"), PortfolioSummary(1),
     <<"series", <<Num(1)>>, <<Num(0)>>, Str("s")>>,
     <<"frame", <<List(<<Num(1)>>)>>, <<Str("c")>>, <<Num(0)>>>>}

\* values nested to depth d: mappings with an ordinary key, with the key
\* "_type" alone, with the keys "_type" and "_data", and one-element lists
RECURSIVE Values(_)
Values(d) ==
    IF d = 0 THEN Leaves
    ELSE LET V == Values(d - 1)
         IN  Leaves
             \cup {Dict("k" :> v) : v \in V}
             \cup {Dict("_type" :> v) : v \in V}
             \cup {Dict(("_type" :> Str("x")) @@ ("_data" :> v)) : v \in V}
             \cup {List(<<v>>) : v \in V}

CodecContexts == {("key" :> v) : v \in Values(MaxDepth)}

\* envelopes found in a checkpoint: class and module as written by an
\* earlier version of the program
Envelope(cls, module, data) ==
    Dict(("_type" :> Str(cls)) @@ ("_module" :> Str(module)) @@ ("_data" :> data))

StoredModules == {SchemaModule, "app.schemas.removed"}
StoredClasses == {"PortfolioSummary", "RemovedModel"}
StoredData ==
    {serialize_value(v) : v \in Values(MaxDepth - 1)}
    \cup {Dict("total_value" :> Num(1)), Dict(("_type" :> Str("pandas.Series"))
                                              @@ ("_data" :> Dict(EmptyContext)))}

StoredContexts ==
    {("key" :> Envelope(c, m, d)) : c \in StoredClasses, m \in StoredModules,
                                     d \in StoredData}

\* node_function's last lines: the context is encoded for the checkpoint
save_context(x) ==
    /\ codec' = [op |-> "encoded", x |-> x, y |-> _serialize_context(x),
                 z |-> Dict(EmptyContext), w |-> Dict(EmptyContext)]
    /\ UNCHANGED <<engine, wrap, mgr>>

\* node_function's first lines: the next node decodes what was encoded
load_context ==
    /\ codec.op = "encoded"
    /\ codec' = [codec EXCEPT !.op = "decoded", !.z = _deserialize_context(codec.y)]
    /\ UNCHANGED <<engine, wrap, mgr>>

\* a context read back from a checkpoint written earlier
load_stored(y) ==
    /\ codec' = [op |-> "loaded", x |-> EmptyContext, y |-> y,
                 z |-> _deserialize_context(y), w |-> Dict(EmptyContext)]
    /\ UNCHANGED <<engine, wrap, mgr>>

\* the decoded context is decoded once more: by the node that follows a
\* failed step, and by execute after the chain
load_again ==
    /\ codec.op \in {"decoded", "loaded"}
    /\ ~IsRaise(codec.z)
    /\ codec' = [codec EXCEPT !.op = "redecoded",
                              !.w = _deserialize_context(codec.z[2])]
    /\ UNCHANGED <<engine, wrap, mgr>>

NextCodec ==
    \/ \E x \in CodecContexts : save_context(x)
    \/ load_context
    \/ \E y \in StoredContexts : load_stored(y)
    \/ load_again

SpecCodec == Init /\ [][NextCodec]_vars

\* C13: for every context x of models, tables, series, primitives and nested
\* mappings (any string keys) and sequences, decode(encode(x)) equals x.
C13_RoundTrip ==
    codec.op = "decoded" => codec.z = Dict(codec.x)

\* the envelope names a module, and the module or the class in it is missing
Unresolvable(env) ==
    /\ env[1] = "dict"
    /\ {"_type", "_module", "_data"} \subseteq DOMAIN env[2]
    /\ env[2]["_type"] \notin {Str("pandas.Series"), Str("pandas.DataFrame")}
    /\ \/ env[2]["_module"] # Str(SchemaModule)
       \/ env[2]["_type"] \notin {Str(c) : c \in ModelClasses}

\* some mapping inside v carries both "_type" and "_data"
RECURSIVE HasEnvelope(_)
HasEnvelope(v) ==
    CASE v[1] = "dict" ->
            \/ {"_type", "_data"} \subseteq DOMAIN v[2]
            \/ \E k \in DOMAIN v[2] : HasEnvelope(v[2][k])
      [] v[1] = "list" -> \E i \in DOMAIN v[2] : HasEnvelope(v[2][i])
      [] OTHER -> FALSE

\* C14 (as stated): decoding an envelope that names a module but whose type
\* cannot be resolved never raises and returns the envelope's data.
C14_FallbackReturnsRawData ==
    (codec.op = "loaded" /\ Unresolvable(codec.y["key"])) =>
        codec.z = Dict("key" :> codec.y["key"][2]["_data"])

\* C14 (amended): decoding an envelope that names a module but whose type
\* cannot be resolved gives what decoding the envelope's data gives: the data
\* itself when no mapping inside it carries "_type" and "_data", and an
\* exception only when decoding the data raises.
C14_FallbackDecodesData ==
    (codec.op = "loaded" /\ Unresolvable(codec.y["key"])) =>
        LET data == codec.y["key"][2]["_data"]
        IN  /\ codec.z = _deserialize_context("key" :> data)
            /\ ~HasEnvelope(data) => codec.z = Dict("key" :> data)

C14_Witness ==
    /\ codec.op = "loaded"
    /\ Unresolvable(codec.y["key"])
    /\ codec.y["key"][2]["_type"] = Str("PortfolioSummary")
    /\ codec.z = Dict("key" :> Dict("total_value" :> Num(1)))

\* ------------------------------------------------ retry and timed steps
MaxRetries == 3    \* largest max_retries given to create_retry_step
MaxDelay   == 2    \* largest delay (seconds) given to create_retry_step

RetryErrors == {"e1", "e2"}         \* str(e) of the wrapped function's failures
NoRecordedError == "Retry step failed with no recorded error"

RECURSIVE Pow2(_)
Pow2(n) == IF n = 0 THEN 1 ELSE 2 * Pow2(n - 1)

\* the loop test one iteration too generous
HasNextAttempt_inclusive(attempt, max_retries) == attempt <= max_retries

\* for attempt in range(max_retries)
HasNextAttempt(attempt, max_retries) == attempt < max_retries

\* the same wait after every failure
Backoff_constant(delay, attempt) == delay

\* delay * (2**attempt)
Backoff(delay, attempt) == delay * Pow2(attempt)

CallEvent(attempt, outcome) == <<"call", attempt, outcome>>
SleepEvent(attempt, seconds) == <<"sleep", attempt, seconds>>

\* RetryStep.execute is entered; at is the node it runs for (NoEntry when the
\* step is executed on its own)
retry_start(max_retries, delay, at) ==
    /\ wrap' = [op |-> "retry", node |-> at, max_retries |-> max_retries,
                delay |-> delay, attempt |-> 0, last_error |-> None,
                events |-> <<>>, raised |-> None,
                pc |-> IF HasNextAttempt(0, max_retries) THEN "call" ELSE "exhausted"]
    /\ UNCHANGED <<engine, codec, mgr>>

\* await func(state) returns: the step returns
retry_call_ok ==
    /\ wrap.op = "retry" /\ wrap.pc = "call"
    /\ wrap' = [wrap EXCEPT !.events = Append(@, CallEvent(wrap.attempt, "ok")),
                            !.pc = "returned"]
    /\ UNCHANGED <<engine, codec, mgr>>

\* await func(state) raises e: remembered, then a sleep or the next iteration
retry_call_fail(e) ==
    /\ wrap.op = "retry" /\ wrap.pc = "call"
    /\ IF wrap.attempt < wrap.max_retries - 1
       THEN wrap' = [wrap EXCEPT !.events = Append(@, CallEvent(wrap.attempt, e)),
                                 !.last_error = e,
                                 !.pc = "sleep"]
       ELSE wrap' = [wrap EXCEPT !.events = Append(@, CallEvent(wrap.attempt, e)),
                                 !.last_error = e,
                                 !.attempt = @ + 1,
                                 !.pc = IF HasNextAttempt(wrap.attempt + 1, wrap.max_retries)
                                        THEN "call" ELSE "exhausted"]
    /\ UNCHANGED <<engine, codec, mgr>>

\* await asyncio.sleep(delay * (2**attempt)), then the next iteration
retry_sleep ==
    /\ wrap.op = "retry" /\ wrap.pc = "sleep"
    /\ wrap' = [wrap EXCEPT !.events = Append(@, SleepEvent(wrap.attempt,
                                                  Backoff(wrap.delay, wrap.attempt))),
                            !.attempt = @ + 1,
                            !.pc = IF HasNextAttempt(wrap.attempt + 1, wrap.max_retries)
                                   THEN "call" ELSE "exhausted"]
    /\ UNCHANGED <<engine, codec, mgr>>

\* after the loop: raise last_error, or RuntimeError when there is none
retry_exhausted ==
    /\ wrap.op = "retry" /\ wrap.pc = "exhausted"
    /\ wrap' = [wrap EXCEPT !.raised = IF wrap.last_error # None
                                       THEN wrap.last_error ELSE NoRecordedError,
                            !.pc = "raised"]
    /\ UNCHANGED <<engine, codec, mgr>>

\* TimedStep: the input state is object 1 with context heap[1]; a state the
\* function builds itself is object 2 with context heap[2].
TimedName == "T"
TimeKey == "T_execution_time"
FuncKinds == {"same", "copy", "new", "value", "raise"}
Elapsed == {0, 1}

\* result = await func(state): func returns the state it was given ("same"),
\* a shallow copy sharing the context dict ("copy"), a state with a context
\* dict of its own ("new"), something that is no WorkflowState ("value"),
\* or it raises ("raise")
timed_call(context, kind) ==
    /\ wrap' = [op |-> "timed", pc |-> "called", kind |-> kind,
                heap |-> (1 :> context) @@ (2 :> context),
                result_context |-> CASE kind \in {"same", "copy"} -> 1
                                     [] kind = "new" -> 2
                                     [] OTHER -> 0,
                handed |-> 0]
    /\ UNCHANGED <<engine, codec, mgr>>

\* state.context[f"{name}_execution_time"] = execution_time, then the return
\* of result or state, or the raise that hands state to on_error
timed_finish(execution_time) ==
    /\ wrap.op = "timed" /\ wrap.pc = "called"
    /\ wrap' = [wrap EXCEPT
                  !.heap = [@ EXCEPT ![1] = (TimeKey :> Num(execution_time)) @@ @],
                  !.handed = IF wrap.result_context # 0 THEN wrap.result_context ELSE 1,
                  !.pc = IF wrap.kind = "raise" THEN "raised" ELSE "returned"]
    /\ UNCHANGED <<engine, codec, mgr>>

\* ------------------------------------------------------- Transform Step
\* what transform_func may return: a WorkflowState, a dict, another value
RunningState(context) ==
    [WorkflowState(<<"caller", 1>>, 0, context) EXCEPT !.status = "running"]

TransformInputs ==
    {("a" :> Num(1)) @@ ("b" :> Num(2)), EmptyContext}

TransformReturns ==
    {<<"state", [RunningState("n" :> Num(9)) EXCEPT !.current_step = "made"]>>,
     Dict(("a" :> Num(7)) @@ ("c" :> Num(3))),
     Dict(EmptyContext),
     Num(5), Str("None"), List(<<Num(1)>>), PortfolioSummary(1)}

\* the mapping returned takes the place of the context
transform_route_replaces(st, res) ==
    CASE res[1] = "state" -> res[2]
      [] res[1] = "dict" -> [st EXCEPT !.context = res[2]]
      [] OTHER -> [st EXCEPT !.context = ("result" :> res) @@ @]

\* isinstance(result, WorkflowState): return result; otherwise
\* state.context.update(result if isinstance(result, dict) else {"result": result})
transform_route(st, res) ==
    CASE res[1] = "state" -> res[2]
      [] res[1] = "dict" -> [st EXCEPT !.context = res[2] @@ @]
      [] OTHER -> [st EXCEPT !.context = ("result" :> res) @@ @]

TransformError(e) == <<"Transformation error in step", e>>

\* TransformStep.execute, transform_func returning result
transform_return(context, res) ==
    /\ wrap' = [op |-> "transform", pc |-> "returned",
                input |-> RunningState(context), ret |-> res,
                out |-> transform_route(RunningState(context), res),
                raised |-> <<None, None>>]
    /\ UNCHANGED <<engine, codec, mgr>>

\* TransformStep.execute, transform_func raising e
transform_raise(context, e) ==
    /\ wrap' = [op |-> "transform", pc |-> "raised",
                input |-> RunningState(context), ret |-> Raise(e),
                out |-> RunningState(context),
                raised |-> TransformError(e)]
    /\ UNCHANGED <<engine, codec, mgr>>

\* ------------------------------------------------- ImageValidationStep
\* bytes are <<"bytes", length, content>>; base64 text is <<"str", text>>
Bytes(n, content) == <<"bytes", n, content>>
KB == 1024
MaxImage == 10 * 1024 * 1024

ImageData ==
    {Bytes(0, "empty"), Bytes(15, "fake_image_data"), Bytes(KB - 1, "p"),
     Bytes(KB, "q"), Bytes(MaxImage, "r"), Bytes(MaxImage + 1, "s"),
     Str(""), Str("QUJD"), Str("A")}

ImageContexts ==
    {("image_data" :> d) : d \in ImageData} \cup {EmptyContext}

\* base64.b64decode: "QUJD" is b"ABC"; "A" has incorrect padding
b64decode(text) ==
    CASE text = "QUJD" -> Bytes(3, "ABC")
      [] text = ""     -> Bytes(0, "empty")
      [] OTHER         -> Raise("Incorrect padding")

\* image_size > 10MB, image_size < 1KB
ImageSizeError(image_size) ==
    IF image_size > MaxImage THEN "Image size exceeds 10MB limit"
    ELSE IF image_size < KB THEN "Image size too small, minimum 1KB required"
    ELSE None

\* ImageValidationStep.execute: the context it leaves and the error it raises
image_validation(context) ==
    LET image_data == IF "image_data" \in DOMAIN context
                      THEN context["image_data"] ELSE Str("")
        falsy == image_data \in {Str(""), Bytes(0, "empty")}
        image_bytes == IF image_data[1] = "str" THEN b64decode(image_data[2])
                       ELSE image_data
    IN  IF falsy THEN [context |-> context, raised |-> "No image data provided"]
        ELSE IF IsRaise(image_bytes)
        THEN [context |-> context, raised |-> "Invalid base64 image data"]
        ELSE LET c1 == ("image_bytes" :> image_bytes) @@ context
             IN  IF ImageSizeError(image_bytes[2]) # None
                 THEN [context |-> c1, raised |-> ImageSizeError(image_bytes[2])]
                 ELSE [context |-> ("image_size" :> Num(image_bytes[2])) @@ c1,
                       raised |-> None]

image_validation_execute(context) ==
    /\ wrap' = [op |-> "image", pc |-> IF image_validation(context).raised = None
                                       THEN "returned" ELSE "raised",
                input |-> context,
                out |-> image_validation(context).context,
                raised |-> image_validation(context).raised]
    /\ UNCHANGED <<engine, codec, mgr>>

NextSteps ==
    \/ \E mr \in 0..MaxRetries : \E d \in 1..MaxDelay : retry_start(mr, d, NoEntry)
    \/ retry_call_ok
    \/ \E e \in RetryErrors : retry_call_fail(e)
    \/ retry_sleep
    \/ retry_exhausted
    \/ \E x \in InitContexts \cup {EmptyContext} : \E k \in FuncKinds : timed_call(x, k)
    \/ \E t \in Elapsed : timed_finish(t)
    \/ \E x \in TransformInputs : \E r \in TransformReturns : transform_return(x, r)
    \/ \E x \in TransformInputs : \E e \in Messages : transform_raise(x, e)
    \/ \E x \in ImageContexts : image_validation_execute(x)

SpecSteps == Init /\ [][NextSteps]_vars

CallEvents(ev)    == {i \in DOMAIN ev : ev[i][1] = "call"}
Failures(ev) == {i \in DOMAIN ev : ev[i][1] = "call" /\ ev[i][3] # "ok"}

RECURSIVE TotalWait(_)
TotalWait(ev) ==
    IF ev = <<>> THEN 0
    ELSE (IF Head(ev)[1] = "sleep" THEN Head(ev)[3] ELSE 0) + TotalWait(Tail(ev))

\* C15: a Retry Step whose function fails r times and then succeeds, with
\* max_retries > r, returns after exactly r+1 calls; the function is called
\* at most max_retries times and never again after a success.
C15_RetryCalls ==
    wrap.op = "retry" =>
        LET ev == wrap.events IN
        /\ Cardinality(CallEvents(ev)) <= wrap.max_retries
        /\ \A i \in CallEvents(ev) : ev[i][3] = "ok" => i = Len(ev)
        /\ wrap.pc = "returned" =>
              /\ ev[Len(ev)] = CallEvent(Cardinality(Failures(ev)), "ok")
              /\ Cardinality(CallEvents(ev)) = Cardinality(Failures(ev)) + 1
        /\ wrap.pc \in {"exhausted", "raised"} =>
              Cardinality(Failures(ev)) = wrap.max_retries

C15_Witness ==
    /\ wrap.op = "retry" /\ wrap.pc = "returned"
    /\ wrap.max_retries = 3
    /\ Cardinality(Failures(wrap.events)) = 2

\* C16: the Retry Step waits delay * 2^a between failed attempt a and the
\* next attempt, which starts only after the wait; after r failures and a
\* success the total wait is delay * (2^0 + ... + 2^(r-1)).
C16_RetryBackoff ==
    wrap.op = "retry" =>
        LET ev == wrap.events IN
        /\ \A i \in CallEvents(ev) :
              ev[i][2] > 0 =>
                 /\ i > 2
                 /\ ev[i - 1] = SleepEvent(ev[i][2] - 1, wrap.delay * Pow2(ev[i][2] - 1))
                 /\ ev[i - 2][1] = "call" /\ ev[i - 2][2] = ev[i][2] - 1
                 /\ ev[i - 2][3] # "ok"
        /\ \A i \in DOMAIN ev :
              ev[i][1] = "sleep" => i > 1 /\ ev[i - 1][1] = "call" /\ ev[i - 1][3] # "ok"
        /\ wrap.pc = "returned" =>
              TotalWait(ev) = wrap.delay * (Pow2(Cardinality(Failures(ev))) - 1)

C16_Witness ==
    /\ wrap.op = "retry" /\ wrap.pc = "returned"
    /\ wrap.delay = 2
    /\ Cardinality(Failures(wrap.events)) = 2
    /\ TotalWait(wrap.events) = 6

\* C18: after a Timed Step's execute, whether the function returned a new
\* state, the same state or a non-state value, or raised, the state handed
\* on contains context["<name>_execution_time"].
C18_TimedKeyHandedOn ==
    (wrap.op = "timed" /\ wrap.pc \in {"returned", "raised"}) =>
        TimeKey \in DOMAIN wrap.heap[wrap.handed]

\* ------------------------------------------- a run whose steps are Retry Steps
\* step.execute of the node call c is at is RetryStep.execute
run_retry_start(c, max_retries, delay) ==
    /\ pc[c] = "step"
    /\ ~(wrap.op = "retry" /\ wrap.node = <<c, node[c]>>)
    /\ retry_start(max_retries, delay, <<c, node[c]>>)

\* RetryStep.execute returned: node_function goes on after step.execute
step_returned(c, out) ==
    /\ wrap.op = "retry" /\ wrap.node = <<c, node[c]>> /\ wrap.pc = "returned"
    /\ node_return(c, out)

\* RetryStep.execute raised: node_function's except clause
step_raised(c) ==
    /\ wrap.op = "retry" /\ wrap.node = <<c, node[c]>> /\ wrap.pc = "raised"
    /\ node_raise(c, wrap.raised)

NextRetryRun ==
    \/ \E c \in Calls : \E arg \in CallerStates \cup {NoState} : execute(c, arg)
    \/ \E c \in Calls : node_begin(c)
    \/ \E c \in Calls : \E mr \in 1..MaxRetries : \E d \in 1..MaxDelay :
          run_retry_start(c, mr, d)
    \/ retry_call_ok
    \/ \E e \in RetryErrors : retry_call_fail(e)
    \/ retry_sleep
    \/ retry_exhausted
    \/ \E c \in Calls : \E out \in StepOutputs : step_returned(c, out)
    \/ \E c \in Calls : step_raised(c)
    \/ \E c \in Calls : execute_finish(c)

SpecRetryRun == InitLate /\ [][NextRetryRun]_vars

\* C17: when the function fails on all max_retries >= 1 attempts the Retry
\* Step raises the error of the last attempt, and the engine's per-step
\* error handling ends the run in status "error".
C17_RetryExhaustedEndsInError ==
    /\ (wrap.op = "retry" /\ wrap.pc = "raised" /\ wrap.max_retries >= 1) =>
          /\ wrap.events[Len(wrap.events)][1] = "call"
          /\ wrap.raised = wrap.events[Len(wrap.events)][3]
    /\ \A c \in Calls :
          (pc[c] = "returned" /\ StepRaised(c)) =>
              /\ result[c].status = "error"
              /\ result[c].error_message \in RetryErrors

\* ------------------------------------------------------- WorkflowManager
\* Pipeline "P" is the workflow of the engine variables; pipeline "Q" is a
\* second workflow known by what its get_status answers; "R" is never
\* registered.
WorkflowNames == {"P", "Q", "R"}

QStores ==
    {[t \in ThreadIds |-> NoState],
     [t \in ThreadIds |->
        IF t \in CallerIds
        THEN [WorkflowState(t, 0, EmptyContext) EXCEPT !.status = "running",
                                                         !.current_step = "Q1"]
        ELSE NoState]}

Registered(m, name) == \E i \in DOMAIN m.workflows : m.workflows[i] = name

\* ValueError(f"Workflow '{workflow_name}' not found"); the name is kept in mgr.name
NotFound(name) == "Workflow not found"

\* WorkflowManager.register_workflow: a dict keeps the position of a key
\* that is assigned again
register_workflow(name, store) ==
    /\ name \in {"P", "Q"}
    /\ mgr' = [mgr EXCEPT !.op = "register", !.tick = 1 - @, !.name = name,
                          !.workflows = IF Registered(mgr, name) THEN @
                                        ELSE Append(@, name),
                          !.q = IF name = "Q" THEN store ELSE @]
    /\ UNCHANGED <<engine, codec, wrap>>

\* the lookup fails and the result is logged all the same
execute_workflow_missing_logged(m, name) ==
    [m EXCEPT !.op = "not_found", !.tick = 1 - @, !.name = name,
              !.error = NotFound(name),
              !.executions = (<<"caller", 1>> :> NoState) @@ @]

\* execute_workflow, workflow_name not in self.workflows: raise ValueError
execute_workflow_missing(m, name) ==
    [m EXCEPT !.op = "not_found", !.tick = 1 - @, !.name = name,
              !.error = NotFound(name)]

execute_workflow_not_found(name) ==
    /\ ~Registered(mgr, name)
    /\ mgr' = execute_workflow_missing(mgr, name)
    /\ UNCHANGED <<engine, codec, wrap>>

\* execute_workflow, registered name: await workflow.execute(initial_state)
execute_workflow(c, name, arg) ==
    /\ name = "P"
    /\ Registered(mgr, name)
    /\ execute(c, arg)

\* execute_workflow after workflow.execute returned:
\* self.executions[result.workflow_id] = result
execute_workflow_record(c) ==
    /\ pc[c] = "returned"
    /\ \A i \in DOMAIN mgr.recorded : mgr.recorded[i] # c
    /\ mgr' = [mgr EXCEPT !.op = "record", !.tick = 1 - @,
                          !.executions = (result[c].workflow_id :> result[c]) @@ @,
                          !.recorded = Append(@, c)]
    /\ UNCHANGED <<engine, codec, wrap>>

\* workflow.get_status(workflow_id) of a registered pipeline
PipelineStatus(m, name, workflow_id) ==
    IF name = "P" THEN get_status(workflow_id) ELSE m.q[workflow_id]

\* for workflow in self.workflows.values(): the first answer that is not None
RECURSIVE FirstStatus(_, _, _)
FirstStatus(m, ws, workflow_id) ==
    IF ws = <<>> THEN NoState
    ELSE LET status == PipelineStatus(m, Head(ws), workflow_id)
         IN  IF status # NoState THEN status
             ELSE FirstStatus(m, Tail(ws), workflow_id)

\* the pipelines asked before the execution log
get_workflow_status_pipelines_first(m, workflow_id) ==
    IF FirstStatus(m, m.workflows, workflow_id) # NoState
    THEN FirstStatus(m, m.workflows, workflow_id)
    ELSE IF workflow_id \in DOMAIN m.executions THEN m.executions[workflow_id]
    ELSE NoState

\* WorkflowManager.get_workflow_status
get_workflow_status(m, workflow_id) ==
    IF workflow_id \in DOMAIN m.executions
    THEN m.executions[workflow_id]
    ELSE FirstStatus(m, m.workflows, workflow_id)

status_query(workflow_id) ==
    /\ mgr' = [mgr EXCEPT !.op = "status", !.tick = 1 - @, !.id = workflow_id,
                          !.answer = get_workflow_status(mgr, workflow_id)]
    /\ UNCHANGED <<engine, codec, wrap>>

\* the manager is followed through one execute_workflow call
ManagerCalls == {1}

NextManager ==
    \/ \E n \in WorkflowNames : \E q \in QStores : register_workflow(n, q)
    \/ \E n \in WorkflowNames : execute_workflow_not_found(n)
    \/ \E c \in ManagerCalls : \E n \in WorkflowNames :
          \E arg \in CallerStates \cup {NoState} : execute_workflow(c, n, arg)
    \/ \E c \in ManagerCalls : node_begin(c)
    \/ \E c \in ManagerCalls : \E out \in StepOutputs : node_return(c, out)
    \/ \E c \in ManagerCalls : \E m \in Messages : node_raise(c, m)
    \/ \E c \in ManagerCalls : execute_finish(c)
    \/ \E c \in ManagerCalls : execute_workflow_record(c)
    \/ \E t \in ThreadIds : status_query(t)

SpecManager == InitLate /\ [][NextManager]_vars

\* C19: run(name, s) with a name that is not registered raises "not found",
\* executes no step, and leaves the execution log and the registered
\* pipelines unchanged.
C19_UnknownNameRaises ==
    [][(mgr'.tick # mgr.tick /\ mgr'.op = "not_found") =>
          /\ ~Registered(mgr, mgr'.name)
          /\ mgr'.error = NotFound(mgr'.name)
          /\ mgr'.executions = mgr.executions
          /\ mgr'.workflows = mgr.workflows
          /\ log' = log /\ pc' = pc /\ checkpoints' = checkpoints]_vars

C19_Witness ==
    /\ mgr.op = "not_found"
    /\ mgr.name = "Q"
    /\ Registered(mgr, "P")
    /\ DOMAIN mgr.executions # {}

\* the calls logged under workflow_id, by their position in the log order
RecordedAs(workflow_id) ==
    {i \in DOMAIN mgr.recorded : result[mgr.recorded[i]].workflow_id = workflow_id}

\* C20: after run(name, s) returned r, status(r.run_id) returns r; for a run
\* id absent from the log, status returns the first non-null get_status
\* answer of the registered pipelines, and null when there is none.
C20_StatusLogFirst ==
    [][(mgr'.tick # mgr.tick /\ mgr'.op = "status") =>
          LET id   == mgr'.id
              ans  == mgr'.answer
              recs == RecordedAs(id)
              ws   == mgr.workflows
          IN  IF recs # {}
              THEN ans = result[mgr.recorded[CHOOSE i \in recs : \A j \in recs : j <= i]]
              ELSE \/ /\ \A i \in DOMAIN ws : PipelineStatus(mgr, ws[i], id) = NoState
                      /\ ans = NoState
                   \/ \E i \in DOMAIN ws :
                         /\ PipelineStatus(mgr, ws[i], id) # NoState
                         /\ ans = PipelineStatus(mgr, ws[i], id)
                         /\ \A j \in 1..(i - 1) :
                               PipelineStatus(mgr, ws[j], id) = NoState]_vars

C20_Witness ==
    /\ mgr.op = "status"
    /\ RecordedAs(mgr.id) # {}
    /\ mgr.answer.status = "completed"
    /\ get_status(mgr.id) # NoState
    /\ get_status(mgr.id).status # "completed"

\* ------------------------------------------- two runs on one pipeline instance
TwoCalls == {1, 2}

\* f"advisory_{int(datetime.now().timestamp())}": the clock counts seconds
AdvisoryIds == {<<"advisory", t>> : t \in 0..MaxClock}

TwoThreadIds == AdvisoryIds \cup {<<"uuid", i>> : i \in TwoCalls}

InitTwo ==
    /\ steps = ConstructedSteps
    /\ graph = NoGraph
    /\ checkpoints = [t \in TwoThreadIds |-> <<>>]
    /\ clock = 0
    /\ uuids = 0
    /\ pc = [c \in TwoCalls |-> "idle"]
    /\ initial_state = [c \in TwoCalls |-> NoState]
    /\ state = [c \in TwoCalls |-> NoState]
    /\ node = [c \in TwoCalls |-> NoEntry]
    /\ result = [c \in TwoCalls |-> NoState]
    /\ surfaced = [c \in TwoCalls |-> None]
    /\ log = [c \in TwoCalls |-> <<>>]
    /\ run_tree = 0
    /\ trees = [c \in TwoCalls |-> {}]
    /\ codec = CodecIdle
    /\ wrap = WrapIdle
    /\ mgr = MgrIdle

\* FundAdvisoryWorkflow.analyze_portfolio up to "await self.execute"
analyze_portfolio(c, portfolio_summary) ==
    execute(c, WorkflowState(<<"advisory", clock>>, clock,
                             ("portfolio_summary" :> portfolio_summary)
                             @@ ("user_profile" :> Dict(EmptyContext))))

\* what the steps of the advisory workflow put into the context: the last
\* step (ResultCompilationStep) writes final_analysis
AdvisoryOutput(step) ==
    IF step = ConstructedSteps[Len(ConstructedSteps)]
    THEN ("final_analysis" :> Str("analysis"))
    ELSE ("validated_portfolio" :> Num(1))

AdvisoryFailed == "Advisory workflow failed"
NoAnalysis == "No analysis results produced"

\* FundAdvisoryWorkflow.analyze_portfolio after execute returned
\* result_state: the ValueError raised, or the analysis returned
analyze_portfolio_outcome(result_state) ==
    IF result_state.status = "error"
    THEN <<"raise", AdvisoryFailed, result_state.error_message>>
    ELSE IF "final_analysis" \notin DOMAIN result_state.context
    THEN <<"raise", NoAnalysis, None>>
    ELSE <<"return", "final_analysis", None>>

NextTwo ==
    \/ Tick
    \/ \E c \in TwoCalls : analyze_portfolio(c, PortfolioSummary(1))
    \/ \E c \in TwoCalls : execute(c, NoState)
    \/ \E c \in TwoCalls : node_begin(c)
    \/ \E c \in TwoCalls : node_return(c, AdvisoryOutput(node[c]))
    \/ \E c \in TwoCalls : \E m \in Messages : node_raise(c, m)
    \/ \E c \in TwoCalls : execute_finish(c)

SpecTwo == InitTwo /\ [][NextTwo]_vars

Started(c) == pc[c] \in {"node", "step", "returned"}

\* C21: two executions never share a run id, whether started through
\* execute without an initial state or through analyze_portfolio.
C21_RunIdsDistinct ==
    \A c, d \in TwoCalls :
        (c # d /\ Started(c) /\ Started(d)) =>
            initial_state[c].workflow_id # initial_state[d].workflow_id

\* C28: when two runs with distinct run ids are interleaved, each run's
\* returned state, checkpoints and trace record (the run tree that receives
\* the run's completion or error outputs) are determined by that run alone.
C28_RunsIsolated ==
    \A c, d \in TwoCalls :
        (c # d /\ Started(c) /\ Started(d)
           /\ initial_state[c].workflow_id # initial_state[d].workflow_id
           /\ pc[c] = "returned") =>
            LET id == initial_state[c].workflow_id IN
            /\ result[c].workflow_id = id
            /\ \A i \in DOMAIN checkpoints[id] : checkpoints[id][i].workflow_id = id
            /\ Len(checkpoints[id]) = Cardinality(Kinds(c, {"checkpoint"}))
            /\ trees[c] = {TreeOutputs(c, result[c].status)}

\* C30: if a step of the fund advisory workflow raises, analyze_portfolio
\* raises "Advisory workflow failed: <the step's error message>"; it never
\* returns a result and never reports a missing result.
C30_AdvisoryFailureRaised ==
    \A c \in TwoCalls :
        (pc[c] = "returned" /\ initial_state[c].workflow_id \in AdvisoryIds
           /\ StepRaised(c)) =>
            /\ analyze_portfolio_outcome(result[c])[1] = "raise"
            /\ analyze_portfolio_outcome(result[c])[2] = AdvisoryFailed
            /\ analyze_portfolio_outcome(result[c])[3] \in Messages

\* C22: a Transform Step routes the function's return value by shape: a
\* full state becomes the result; a mapping is merged into the input
\* state's context, other keys kept; any other value v is stored as
\* context["result"]; in the last two cases no other field changes.
C22_TransformRoutes ==
    (wrap.op = "transform" /\ wrap.pc = "returned") =>
        LET inp == wrap.input
            ret == wrap.ret
            out == wrap.out
        IN  CASE ret[1] = "state" -> out = ret[2]
              [] ret[1] = "dict" ->
                    /\ DOMAIN out.context = DOMAIN inp.context \cup DOMAIN ret[2]
                    /\ \A k \in DOMAIN ret[2] : out.context[k] = ret[2][k]
                    /\ \A k \in DOMAIN inp.context \ DOMAIN ret[2] :
                          out.context[k] = inp.context[k]
                    /\ [out EXCEPT !.context = inp.context] = inp
              [] OTHER ->
                    /\ DOMAIN out.context = DOMAIN inp.context \cup {"result"}
                    /\ out.context["result"] = ret
                    /\ \A k \in DOMAIN inp.context : out.context[k] = inp.context[k]
                    /\ [out EXCEPT !.context = inp.context] = inp

C22_Witness ==
    /\ wrap.op = "transform" /\ wrap.pc = "returned"
    /\ wrap.ret = Dict(("a" :> Num(7)) @@ ("c" :> Num(3)))
    /\ wrap.out.context = ("a" :> Num(7)) @@ ("b" :> Num(2)) @@ ("c" :> Num(3))

\* C23: for any non-empty bytes value given as context["image_data"],
\* ImageValidationStep.execute returns a state with context["image_bytes"]
\* equal to that value and context["image_size"] equal to its length.
C23_ImageBytesAccepted ==
    (wrap.op = "image" /\ "image_data" \in DOMAIN wrap.input
       /\ wrap.input["image_data"][1] = "bytes"
       /\ wrap.input["image_data"][2] > 0) =>
        /\ wrap.pc = "returned"
        /\ wrap.out["image_bytes"] = wrap.input["image_data"]
        /\ wrap.out["image_size"] = Num(wrap.input["image_data"][2])

\* C29: decode is idempotent on contexts it produced: decoding an already
\* decoded context again does not alter any value.
C29_DecodeIdempotent ==
    codec.op = "redecoded" => codec.w = codec.z

C29_Witness ==
    /\ codec.op = "redecoded"
    /\ codec.x = ("key" :> Dict("k" :> PortfolioSummary(1)))
    /\ codec.w = Dict(codec.x)

\* only primitives, mappings and sequences: no model, table or series
RECURSIVE IsEncoded(_)
IsEncoded(v) ==
    CASE v[1] \in {"model", "series", "frame"} -> FALSE
      [] v[1] = "dict" -> \A k \in DOMAIN v[2] : IsEncoded(v[2][k])
      [] v[1] = "list" -> \A i \in DOMAIN v[2] : IsEncoded(v[2][i])
      [] OTHER -> TRUE

\* C25: every checkpoint written for a run holds the context in encoded
\* form, including the checkpoint written after a step whose execute raised.
C25_CheckpointsEncoded ==
    \A st \in CheckpointedStates :
        \A k \in DOMAIN st.context : IsEncoded(st.context[k])

\* ------------------------------------- executes one after the other, steps added
\* a second execute starts when no other is under way
execute_next(c) ==
    /\ \A d \in TwoCalls \ {c} : pc[d] \in {"idle", "returned", "raised"}
    /\ execute(c, NoState)

NextReuse ==
    \/ \E s \in StepNames : add_step_late(s)
    \/ \E c \in TwoCalls : execute_next(c)
    \/ \E c \in TwoCalls : node_begin(c)
    \/ \E c \in TwoCalls : \E out \in StepOutputs : node_return(c, out)
    \/ \E c \in TwoCalls : \E m \in Messages : node_raise(c, m)
    \/ \E c \in TwoCalls : execute_finish(c)

SpecReuse == InitTwo /\ [][NextReuse]_vars

\* C26: across any sequence of execute calls on one pipeline instance the
\* graph is built at most once, by the first execute; every later execute
\* and get_status reuses that graph.
C26_GraphBuiltOnce ==
    [][graph.built => graph' = graph]_vars

C26_Witness ==
    /\ pc[1] = "returned"
    /\ Started(2)
    /\ graph.built
    /\ graph.nodes = ConstructedSteps
    /\ steps # ConstructedSteps
    /\ get_status(<<"uuid", 2>>) # NoState

\* C27: once the graph has been built, add_step does not change the step
\* list, so the list used for progress is the list the graph was built from.
C27_StepsFrozenAfterBuild ==
    [][graph.built => steps' = steps]_vars

====
